---- MODULE Spec2Model ----
(***************************************************************************)
(* A model of listenToThisBot.py: the title parser, the staged Spotify     *)
(* search, the batch pipeline over the top posts, the playlist update and  *)
(* the replies posted back to Reddit.                                      *)
(*                                                                         *)
(* A Python str is a sequence of one-character strings; None is a value    *)
(* that is no sequence of characters.  Reddit and Spotify are modelled by  *)
(* what the program reads from and writes to them: the listing of posts,   *)
(* the search results per query, the user's playlists, and the log of      *)
(* upvote, reply and sleep calls.                                          *)
(***************************************************************************)
EXTENDS Integers, Sequences, FiniteSets, TLC

VARIABLES
    pc,               \* the statement the program is at
    entry,            \* the function the caller invoked: "run", "get_top_songs" or "find_song"
    posts,            \* reddit.subreddit(..).top(..): the listing, in order
    today,            \* datetime.date.today() as YYMMDD
    playlists,        \* Spotify: the user's playlists, each [name, id, tracks]
    catalog,          \* Spotify: the search result of every query asked so far
    runs,             \* number of completed calls of run
    post_to_reddit,   \* run's parameter
    track_list,       \* get_top_songs: track_list
    i,                \* get_top_songs: position in the listing
    found_track_list, \* search_spotify_for_ids: found_track_list
    j,                \* search_spotify_for_ids: position in track_list
    title,            \* find_song: parameter title
    artist,           \* find_song: parameter artist
    query,            \* find_song: query['items'] ids of the last search
    queries,          \* history: the searches find_song issued in this call
    id_num,           \* find_song: the value returned
    error,            \* the exception that ended the call, or "none"
    playlist_id,      \* create_playlist: playlist_id
    current_tracks,   \* create_playlist: the ids of current_tracks['items']
    k,                \* create_playlist: position in track_list
    addCalls,         \* history: user_playlist_add_tracks calls of this run
    post_ids,         \* inform_post_on_reddit: post_ids
    m,                \* inform_post_on_reddit: position in post_ids
    redditLog,        \* history: upvote, reply and sleep calls of this run
    lastRun           \* history: the date and the playlists at the end of the previous run

vars == <<pc, entry, posts, today, playlists, catalog, runs, post_to_reddit,
          track_list, i, found_track_list, j, title, artist, query, queries,
          id_num, error, playlist_id, current_tracks, k, addCalls, post_ids,
          m, redditLog, lastRun>>

(***************************************************************************)
(* Bounds of the model.                                                    *)
(***************************************************************************)
MaxPosts == 2       \* posts in the listing
MaxRuns == 2        \* calls of run in one behaviour
MaxFrags == 3       \* fragments a parsed title is put together from
MaxArtistLen == 3   \* characters of an artist handed to find_song directly

(***************************************************************************)
(* Characters and strings.                                                 *)
(***************************************************************************)
None == <<"None">>

EmDash == "EMDASH"      \* the character U+2014

Letters == {"a", "b", "c", "d", "e", "f", "i", "n", "o", "s", "u", "D"}
Digits == {"1", "5", "7", "9"}
Whitespace == {" "}
Chars == Letters \cup Digits \cup Whitespace \cup
         {"-", "|", EmDash, "^", "[", "]", "(", ")", "!"}

\* \w
WordChars == Letters \cup Digits
\* [^-|^EmDash] of pattern1
Group1Class == Chars \ {"-", "|", "^", EmDash}
\* [-|EmDash|\s] of pattern1
SeparatorClass == {"-", "|", EmDash} \cup Whitespace
\* [^\[^(] of pattern1
Group2Class == Chars \ {"[", "^", "("}
\* [\[|\(] of pattern2 and pattern3
OpenClass == {"[", "|", "("}
\* [\]|\)] of pattern3
CloseClass == {"]", "|", ")"}
\* \D
NonDigits == Chars \ Digits

\* str.lower(), character by character
LowerChar(c) == IF c = "D" THEN "d" ELSE c
lower(s) == [p \in 1..Len(s) |-> LowerChar(s[p])]

\* sub in s
Contains(s, sub) ==
    \E p \in 1..(Len(s) - Len(sub) + 1) : SubSeq(s, p, p + Len(sub) - 1) = sub

\* str.strip()
RECURSIVE lstrip(_)
lstrip(s) == IF s # <<>> /\ Head(s) \in Whitespace THEN lstrip(Tail(s)) ELSE s
RECURSIVE rstrip(_)
rstrip(s) ==
    IF s # <<>> /\ s[Len(s)] \in Whitespace THEN rstrip(SubSeq(s, 1, Len(s) - 1)) ELSE s
strip(s) == rstrip(lstrip(s))

\* n copies of c
Rep(c, n) == [p \in 1..n |-> c]

Max(S) == CHOOSE x \in S : \A y \in S : y <= x
Min(S) == CHOOSE x \in S : \A y \in S : x <= y

\* the last position of the run of characters of class C that starts at p (p - 1: no run)
RunEnd(s, p, C) ==
    IF p > Len(s) THEN p - 1
    ELSE CHOOSE e \in p - 1 .. Len(s) :
            /\ e = Len(s) \/ s[e + 1] \notin C
            /\ \A r \in p .. e : s[r] \in C

(***************************************************************************)
(* parse_reddit_title                                                      *)
(***************************************************************************)
MaxFieldLen == 75
Sentinel == <<"A", "b", "o", "r", "t", "6", "6", "1", "8", "0", "3", "1", "1", "1", "1">>
Discussion == <<"d", "i", "s", "c", "u", "s", "s", "i", "o", "n">>

\* pattern1 with [-|EmDash|\s]* for [-|EmDash|\s]+
Pattern1SplitsOptional(s, p) ==
    { ge \in UNION { { <<g, e>> : e \in g .. RunEnd(s, g + 1, SeparatorClass) } :
                     g \in p + 1 .. RunEnd(s, p + 1, Group1Class) } :
        /\ ge[2] + 2 <= Len(s)
        /\ s[ge[2] + 1] \in WordChars
        /\ s[ge[2] + 2] \in Group2Class }

\* pattern1 tried at position p: the ways (group 1 ends at g, the separators end at
\* e) in which the rest of the pattern matches
Pattern1Splits(s, p) ==
    { ge \in UNION { { <<g, e>> : e \in g + 1 .. RunEnd(s, g + 1, SeparatorClass) } :
                     g \in p + 1 .. RunEnd(s, p + 1, Group1Class) } :
        /\ ge[2] + 2 <= Len(s)
        /\ s[ge[2] + 1] \in WordChars
        /\ s[ge[2] + 2] \in Group2Class }

\* pattern1 at position p, greedy: the longest group 1, then the longest run of
\* separators, then the longest group 2
Pattern1At(s, p) ==
    LET splits == Pattern1Splits(s, p)
        g == Max({ge[1] : ge \in splits})
        e == Max({ge[2] : ge \in {x \in splits : x[1] = g}})
    IN  << SubSeq(s, p, g), SubSeq(s, e + 1, RunEnd(s, e + 2, Group2Class)) >>

\* pattern1 matches at position p
Pattern1Matches(s, p) == s[p] \in WordChars /\ Pattern1Splits(s, p) # {}

\* the leftmost position pattern1 matches at (Len(s) + 1: none)
Pattern1Start(s) ==
    CHOOSE p \in 1 .. Len(s) + 1 :
        /\ p = Len(s) + 1 \/ Pattern1Matches(s, p)
        /\ \A r \in 1 .. p - 1 : ~Pattern1Matches(s, r)

\* pattern1.findall(title)[0]: the leftmost match, or <<>> when there is none
Pattern1First(s) ==
    IF Pattern1Start(s) > Len(s) THEN <<>> ELSE Pattern1At(s, Pattern1Start(s))

\* pattern2 matches at position p
YearAt(s, p) ==
    /\ p + 4 <= Len(s)
    /\ s[p] \in OpenClass
    /\ \A q \in p + 1 .. p + 4 : s[q] \in Digits

\* the leftmost position pattern2 matches at (Len(s) + 1: none)
YearStart(s) ==
    CHOOSE p \in 1 .. Len(s) + 1 :
        /\ p = Len(s) + 1 \/ YearAt(s, p)
        /\ \A r \in 1 .. p - 1 : ~YearAt(s, r)

\* pattern2.findall(title)[0], or None (the IndexError is caught)
Year(s) ==
    IF YearStart(s) > Len(s) THEN None
    ELSE SubSeq(s, YearStart(s) + 1, YearStart(s) + 4)

\* the closing positions pattern3 can end at when it starts at p
GenreEnds(s, p) ==
    IF s[p] \in OpenClass
    THEN { q \in p + 2 .. RunEnd(s, p + 1, NonDigits) : s[q] \in CloseClass }
    ELSE {}

\* the leftmost position pattern3 matches at (Len(s) + 1: none)
GenreStart(s) ==
    CHOOSE p \in 1 .. Len(s) + 1 :
        /\ p = Len(s) + 1 \/ GenreEnds(s, p) # {}
        /\ \A r \in 1 .. p - 1 : GenreEnds(s, r) = {}

\* pattern3.findall(title)[0], or None (the IndexError is caught)
Genre(s) ==
    IF GenreStart(s) > Len(s) THEN None
    ELSE SubSeq(s, GenreStart(s) + 1, Max(GenreEnds(s, GenreStart(s))) - 1)

\* the abort test of parse_reddit_title, line 316
IsAbortNever(t, track, art) == FALSE
IsAbort(t, track, art) ==
    \/ Len(track) > MaxFieldLen
    \/ Len(art) > MaxFieldLen
    \/ Contains(lower(t), Discussion)

\* parse_reddit_title(t): the dict returned, or the IndexError of findall(..)[0]
parse_reddit_title(t) ==
    LET match == Pattern1First(t) IN
    IF match = <<>>
    THEN [raised |-> TRUE, value |-> None]
    ELSE LET track == strip(match[2])
             art == strip(match[1])
             abort == IsAbort(t, track, art)
         IN [raised |-> FALSE,
             value |-> [Title |-> IF abort THEN Sentinel ELSE track,
                        Artist |-> IF abort THEN Sentinel ELSE art,
                        Genre |-> Genre(t),
                        Year |-> Year(t)]]

(***************************************************************************)
(* Spotify and Reddit as the program sees them.                            *)
(***************************************************************************)
TrackA == <<"A">>
TrackB == <<"B">>

\* what spotify.search may answer: the ids of query['tracks']['items'], in the
\* service's order; query['tracks']['total'] is their number
Results == { <<>>, <<TrackA>>, <<TrackB, TrackA>> }

\* the answers spotify.search can give to q: the service answers a query asked
\* before as it did then
SearchResults(q) == IF q \in DOMAIN catalog THEN {catalog[q]} ELSE Results

Remember(q, r) == IF q \in DOMAIN catalog THEN catalog ELSE catalog @@ (q :> r)

Day1 == <<"2", "1", "0", "1", "0", "1">>
Day2 == <<"2", "1", "0", "1", "0", "2">>

subreddit == "ListenToThis"

\* run: playlist_name = f'/r/{subreddit}_' + today_YYMMDD()
playlist_name(day) == <<"/r/", subreddit, "_", day>>

score_threshold == 70
sleep_time == 60 * 10

(***************************************************************************)
(* find_song and spotify_query                                             *)
(***************************************************************************)
\* spotify_query: the query string q, as its track filter and its artist filter
spotify_query(t, a) == IF a # None /\ a # <<>> THEN <<t, a>> ELSE <<t>>

\* ' ' in artist
HasSpace(a) == \E p \in 1..Len(a) : a[p] = " "

\* artist.split(' ')[0], and [-1] for it
FirstWordLast(a) ==
    LET sp == {p \in 1..Len(a) : a[p] = " "} IN SubSeq(a, Max(sp) + 1, Len(a))
FirstWord(a) ==
    LET sp == {p \in 1..Len(a) : a[p] = " "} IN SubSeq(a, 1, Min(sp) - 1)

\* line 192: the search with both parameters
FindSongExact ==
    /\ pc = "find_song"
    /\ \E r \in SearchResults(spotify_query(title, artist)) :
          /\ catalog' = Remember(spotify_query(title, artist), r)
          /\ query' = r
          /\ queries' = <<spotify_query(title, artist)>>
    /\ pc' = "fs193"
    /\ UNCHANGED <<entry, posts, today, playlists, runs, post_to_reddit, track_list,
                   i, found_track_list, j, title, artist, id_num, error, playlist_id,
                   current_tracks, k, addCalls, post_ids, m, redditLog, lastRun>>

\* lines 193-196: the search with the first word of the artist
FindSongFirstWord ==
    /\ pc = "fs193"
    /\ IF Len(query) # 0
       THEN /\ pc' = "fs199"
            /\ UNCHANGED <<catalog, query, queries, error>>
       ELSE IF artist = None
       THEN \* ' ' in None raises TypeError
            /\ pc' = "raised"
            /\ error' = "TypeError"
            /\ UNCHANGED <<catalog, query, queries>>
       ELSE IF HasSpace(artist)
       THEN /\ \E r \in SearchResults(spotify_query(title, FirstWord(artist))) :
                  /\ catalog' = Remember(spotify_query(title, FirstWord(artist)), r)
                  /\ query' = r
                  /\ queries' = Append(queries, spotify_query(title, FirstWord(artist)))
            /\ pc' = "fs197"
            /\ UNCHANGED error
       ELSE /\ pc' = "fs197"
            /\ UNCHANGED <<catalog, query, queries, error>>
    /\ UNCHANGED <<entry, posts, today, playlists, runs, post_to_reddit, track_list,
                   i, found_track_list, j, title, artist, id_num, playlist_id,
                   current_tracks, k, addCalls, post_ids, m, redditLog, lastRun>>

\* lines 197-198: the search with the title alone
FindSongTitleOnly ==
    /\ pc = "fs197"
    /\ IF Len(query) = 0
       THEN \E r \in SearchResults(spotify_query(title, None)) :
               /\ catalog' = Remember(spotify_query(title, None), r)
               /\ query' = r
               /\ queries' = Append(queries, spotify_query(title, None))
       ELSE UNCHANGED <<catalog, query, queries>>
    /\ pc' = "fs199"
    /\ UNCHANGED <<entry, posts, today, playlists, runs, post_to_reddit, track_list,
                   i, found_track_list, j, title, artist, id_num, error, playlist_id,
                   current_tracks, k, addCalls, post_ids, m, redditLog, lastRun>>

\* lines 199-202: query['items'][0]['id'] or None
SelectId(q) == IF Len(q) > 0 THEN q[1] ELSE None

\* lines 199-203
FindSongReturn ==
    /\ pc = "fs199"
    /\ id_num' = SelectId(query)
    /\ pc' = IF entry = "find_song" THEN "done" ELSE "search231"
    /\ UNCHANGED <<entry, posts, today, playlists, catalog, runs, post_to_reddit,
                   track_list, i, found_track_list, j, title, artist, query, queries,
                   error, playlist_id, current_tracks, k, addCalls, post_ids, m,
                   redditLog, lastRun>>

(***************************************************************************)
(* get_top_songs                                                           *)
(***************************************************************************)
\* line 99, and > for >=
AboveThresholdStrict(post) == post.score > score_threshold
AboveThreshold(post) == post.score >= score_threshold

\* lines 98-105: one post of the listing
GetTopSongsPost ==
    /\ pc = "get_top_songs"
    /\ i <= Len(posts)
    /\ track_list' =
          IF AboveThreshold(posts[i]) /\ ~parse_reddit_title(posts[i].title).raised
          THEN Append(track_list,
                      [TrackInfo |-> parse_reddit_title(posts[i].title).value,
                       RedditPostID |-> posts[i].id])
          ELSE track_list
    /\ i' = i + 1
    /\ UNCHANGED <<pc, entry, posts, today, playlists, catalog, runs, post_to_reddit,
                   found_track_list, j, title, artist, query, queries, id_num, error,
                   playlist_id, current_tracks, k, addCalls, post_ids, m, redditLog,
                   lastRun>>

\* lines 106-107, and line 225 of search_spotify_for_ids when run called
GetTopSongsReturn ==
    /\ pc = "get_top_songs"
    /\ i > Len(posts)
    /\ pc' = IF entry = "get_top_songs" THEN "done" ELSE "search"
    /\ found_track_list' = <<>>
    /\ j' = 1
    /\ UNCHANGED <<entry, posts, today, playlists, catalog, runs, post_to_reddit,
                   track_list, i, title, artist, query, queries, id_num, error,
                   playlist_id, current_tracks, k, addCalls, post_ids, m, redditLog,
                   lastRun>>

(***************************************************************************)
(* search_spotify_for_ids                                                  *)
(***************************************************************************)
\* lines 226-230: the call of find_song for one track
SearchTrack ==
    /\ pc = "search"
    /\ j <= Len(track_list)
    /\ artist' = track_list[j].TrackInfo.Artist
    /\ title' = track_list[j].TrackInfo.Title
    /\ queries' = <<>>
    /\ pc' = "find_song"
    /\ UNCHANGED <<entry, posts, today, playlists, catalog, runs, post_to_reddit,
                   track_list, i, found_track_list, j, query, id_num, error,
                   playlist_id, current_tracks, k, addCalls, post_ids, m, redditLog,
                   lastRun>>

\* if id_num
Truthy(x) == x # None /\ x # <<>>

\* lines 231-235: the track is kept when find_song returned an id
SearchKeep ==
    /\ pc = "search231"
    /\ found_track_list' =
          IF Truthy(id_num)
          THEN Append(found_track_list,
                      [SpotifyID |-> id_num,
                       RedditPostID |-> track_list[j].RedditPostID,
                       TrackInfo |-> track_list[j].TrackInfo])
          ELSE found_track_list
    /\ j' = j + 1
    /\ pc' = "search"
    /\ UNCHANGED <<entry, posts, today, playlists, catalog, runs, post_to_reddit,
                   track_list, i, title, artist, query, queries, id_num, error,
                   playlist_id, current_tracks, k, addCalls, post_ids, m, redditLog,
                   lastRun>>

\* line 236, and line 360 of run: track_list = search_spotify_for_ids(track_list)
SearchReturn ==
    /\ pc = "search"
    /\ j > Len(track_list)
    /\ track_list' = found_track_list
    /\ pc' = "create_playlist"
    /\ UNCHANGED <<entry, posts, today, playlists, catalog, runs, post_to_reddit, i,
                   found_track_list, j, title, artist, query, queries, id_num, error,
                   playlist_id, current_tracks, k, addCalls, post_ids, m, redditLog,
                   lastRun>>

(***************************************************************************)
(* create_playlist                                                         *)
(***************************************************************************)
\* the positions in spotify.user_playlists(..)['items'] of the playlists of that name
Named(pls, name) == {p \in 1..Len(pls) : pls[p].name = name}

\* lines 264-267: user_playlist_create, unless a playlist has the name
WithPlaylist(pls, name) ==
    IF Named(pls, name) # {} THEN pls
    ELSE Append(pls, [name |-> name, id |-> Len(pls) + 1, tracks |-> <<>>])

\* lines 259-272, with line 361 of run: the playlist of today's name is looked up,
\* and created first when the user has none
CreatePlaylistLookup ==
    /\ pc = "create_playlist"
    /\ playlists' = WithPlaylist(playlists, playlist_name(today))
    /\ playlist_id' = playlists'[Min(Named(playlists', playlist_name(today)))].id
    /\ lastRun' = [prevDay |-> lastRun.day, day |-> today, start |-> playlists]
    /\ pc' = "cp273"
    /\ UNCHANGED <<entry, posts, today, catalog, runs, post_to_reddit, track_list, i,
                   found_track_list, j, title, artist, query, queries, id_num, error,
                   current_tracks, k, addCalls, post_ids, m, redditLog>>

\* spotify.user_playlist_tracks(playlist_id)['items'], as track ids, and a
\* listing that comes back empty
user_playlist_tracks_none(pls, pid) == <<>>
user_playlist_tracks(pls, pid) ==
    pls[CHOOSE p \in 1..Len(pls) : pls[p].id = pid].tracks

\* lines 273-274
CreatePlaylistReadTracks ==
    /\ pc = "cp273"
    /\ current_tracks' = user_playlist_tracks(playlists, playlist_id)
    /\ k' = 1
    /\ pc' = "cp275"
    /\ UNCHANGED <<entry, posts, today, playlists, catalog, runs, post_to_reddit,
                   track_list, i, found_track_list, j, title, artist, query, queries,
                   id_num, error, playlist_id, addCalls, post_ids, m, redditLog,
                   lastRun>>

\* lines 276-279, and the loop of line 277 left out
IsDuplicateNever(current, id) == FALSE
IsDuplicate(current, id) == \E p \in 1..Len(current) : current[p] = id

\* spotify.user_playlist_add_tracks(playlist_id, tracks = [id])
AddTrack(pls, pid, id) ==
    [p \in 1..Len(pls) |->
        IF pls[p].id = pid
        THEN [pls[p] EXCEPT !.tracks = Append(pls[p].tracks, id)]
        ELSE pls[p]]

\* lines 275-283: one song of track_list
CreatePlaylistSong ==
    /\ pc = "cp275"
    /\ k <= Len(track_list)
    /\ IF ~IsDuplicate(current_tracks, track_list[k].SpotifyID)
       THEN /\ playlists' = AddTrack(playlists, playlist_id, track_list[k].SpotifyID)
            /\ addCalls' = Append(addCalls, [index |-> k, track |-> track_list[k].SpotifyID])
       ELSE UNCHANGED <<playlists, addCalls>>
    /\ k' = k + 1
    /\ UNCHANGED <<pc, entry, posts, today, catalog, runs, post_to_reddit, track_list,
                   i, found_track_list, j, title, artist, query, queries, id_num, error,
                   playlist_id, current_tracks, post_ids, m, redditLog, lastRun>>

\* line 284, and lines 362-367 of run: the replies are posted when asked for, for
\* every item of track_list
CreatePlaylistReturn ==
    /\ pc = "cp275"
    /\ k > Len(track_list)
    /\ IF post_to_reddit
       THEN /\ post_ids' = [n \in 1..Len(track_list) |-> track_list[n].RedditPostID]
            /\ m' = 1
            /\ pc' = "inform"
            /\ UNCHANGED runs
       ELSE /\ pc' = "idle"
            /\ runs' = runs + 1
            /\ UNCHANGED <<post_ids, m>>
    /\ UNCHANGED <<entry, posts, today, playlists, catalog, post_to_reddit, track_list,
                   i, found_track_list, j, title, artist, query, queries, id_num, error,
                   playlist_id, current_tracks, k, addCalls, redditLog, lastRun>>

(***************************************************************************)
(* inform_post_on_reddit                                                   *)
(***************************************************************************)
\* line 141, for the n-th of len post ids (enumerate counts from 0), and the
\* test left out
SleepsAfterAlways(n, len) == TRUE
SleepsAfter(n, len) == n - 1 < len - 1

\* lines 136-142: one post
InformPost ==
    /\ pc = "inform"
    /\ m <= Len(post_ids)
    /\ redditLog' = redditLog
                    \o << [call |-> "upvote", post |-> post_ids[m]],
                          [call |-> "reply", post |-> post_ids[m]] >>
                    \o IF SleepsAfter(m, Len(post_ids))
                       THEN << [call |-> "sleep", seconds |-> sleep_time] >>
                       ELSE <<>>
    /\ m' = m + 1
    /\ UNCHANGED <<pc, entry, posts, today, playlists, catalog, runs, post_to_reddit,
                   track_list, i, found_track_list, j, title, artist, query, queries,
                   id_num, error, playlist_id, current_tracks, k, addCalls, post_ids,
                   lastRun>>

\* the loop of line 136 ends, inform_post_on_reddit and run return
InformReturn ==
    /\ pc = "inform"
    /\ m > Len(post_ids)
    /\ pc' = "idle"
    /\ runs' = runs + 1
    /\ UNCHANGED <<entry, posts, today, playlists, catalog, post_to_reddit, track_list,
                   i, found_track_list, j, title, artist, query, queries, id_num, error,
                   playlist_id, current_tracks, k, addCalls, post_ids, m, redditLog,
                   lastRun>>

(***************************************************************************)
(* run                                                                     *)
(***************************************************************************)
\* run is called; lines 95-97 of get_top_songs
RunCall ==
    /\ pc = "idle"
    /\ entry = "run"
    /\ runs < MaxRuns
    /\ track_list' = <<>>
    /\ i' = 1
    /\ addCalls' = <<>>
    /\ redditLog' = <<>>
    /\ pc' = "get_top_songs"
    /\ UNCHANGED <<entry, posts, today, playlists, catalog, runs, post_to_reddit,
                   found_track_list, j, title, artist, query, queries, id_num, error,
                   playlist_id, current_tracks, k, post_ids, m, lastRun>>

\* today_YYMMDD: the date changes between two calls of run
DayPasses ==
    /\ pc = "idle"
    /\ entry = "run"
    /\ runs > 0
    /\ today = Day1
    /\ today' = Day2
    /\ UNCHANGED <<pc, entry, posts, playlists, catalog, runs, post_to_reddit,
                   track_list, i, found_track_list, j, title, artist, query, queries,
                   id_num, error, playlist_id, current_tracks, k, addCalls, post_ids,
                   m, redditLog, lastRun>>

(***************************************************************************)
(* The inputs.                                                             *)
(***************************************************************************)
\* titles of posts: artist, separator, track; an artist of two words; no separator;
\* the weekly discussion thread
TitlePlain == <<"a", "b", "-", "c", "d">>
TitleTwoWords == <<"a", "b", " ", "c", "d", " ", "-", " ", "e", "f">>
TitleNoSeparator == <<"a", "b", "c", "d">>
TitleDiscussion == <<"D", "i", "s", "c", "u", "s", "s", "i", "o", "n", " ", "a", "b">>

PostPool ==
    { [title |-> TitleTwoWords, score |-> score_threshold + 1],
      [title |-> TitleNoSeparator, score |-> score_threshold],
      [title |-> TitleDiscussion, score |-> score_threshold],
      [title |-> TitlePlain, score |-> score_threshold - 1] }

\* the listings of at most n posts; a post's id is its place in the listing
Listings(n) ==
    UNION { { [p \in 1..len |-> [id |-> p, title |-> f[p].title, score |-> f[p].score]] :
              f \in [1..len -> PostPool] } : len \in 0..n }

\* the user's playlists before the first run: none, or today's with a track in it
InitPlaylists ==
    { <<>>, << [name |-> playlist_name(Day1), id |-> 1, tracks |-> <<TrackA>>] >> }

NoRun == [prevDay |-> None, day |-> None, start |-> <<>>]

\* run is called up to MaxRuns times on one listing, with one value of post_to_reddit
Init ==
    /\ pc = "idle"
    /\ entry = "run"
    /\ posts \in Listings(MaxPosts)
    /\ today = Day1
    /\ playlists \in InitPlaylists
    /\ catalog = <<>>
    /\ runs = 0
    /\ post_to_reddit \in BOOLEAN
    /\ track_list = <<>>
    /\ i = 1
    /\ found_track_list = <<>>
    /\ j = 1
    /\ title = None
    /\ artist = None
    /\ query = <<>>
    /\ queries = <<>>
    /\ id_num = None
    /\ error = "none"
    /\ playlist_id = 0
    /\ current_tracks = <<>>
    /\ k = 1
    /\ addCalls = <<>>
    /\ post_ids = <<>>
    /\ m = 1
    /\ redditLog = <<>>
    /\ lastRun = NoRun

Next ==
    \/ RunCall
    \/ DayPasses
    \/ GetTopSongsPost
    \/ GetTopSongsReturn
    \/ SearchTrack
    \/ FindSongExact
    \/ FindSongFirstWord
    \/ FindSongTitleOnly
    \/ FindSongReturn
    \/ SearchKeep
    \/ SearchReturn
    \/ CreatePlaylistLookup
    \/ CreatePlaylistReadTracks
    \/ CreatePlaylistSong
    \/ CreatePlaylistReturn
    \/ InformPost
    \/ InformReturn

Spec == Init /\ [][Next]_vars

\* the strings of at most n characters over the alphabet S
RECURSIVE Strings(_, _)
Strings(S, n) ==
    IF n = 0 THEN { <<>> }
    ELSE Strings(S, n - 1) \cup { Append(s, c) : s \in Strings(S, n - 1), c \in S }

FindTitle == <<"c", "d">>

\* find_song is called with a title and any artist, None included
InitFind ==
    /\ pc = "find_song"
    /\ entry = "find_song"
    /\ posts = <<>>
    /\ title = FindTitle
    /\ artist \in {None} \cup Strings({"a", "b", " "}, MaxArtistLen)
    /\ today = Day1
    /\ playlists = <<>>
    /\ catalog = <<>>
    /\ runs = 0
    /\ post_to_reddit = FALSE
    /\ track_list = <<>>
    /\ i = 1
    /\ found_track_list = <<>>
    /\ j = 1
    /\ query = <<>>
    /\ queries = <<>>
    /\ id_num = None
    /\ error = "none"
    /\ playlist_id = 0
    /\ current_tracks = <<>>
    /\ k = 1
    /\ addCalls = <<>>
    /\ post_ids = <<>>
    /\ m = 1
    /\ redditLog = <<>>
    /\ lastRun = NoRun

NextFind ==
    \/ FindSongExact
    \/ FindSongFirstWord
    \/ FindSongTitleOnly
    \/ FindSongReturn

SpecFind == InitFind /\ [][NextFind]_vars

\* the pieces titles are put together from
Fragments ==
    { <<"a", "b">>, <<" ">>, <<"-">>, <<"|">>, <<EmDash>>, <<"^">>,
      <<"[", "a", "]", "(", "1", "9", "7", "5", ")">>,
      <<"D", "i", "s", "c", "u", "s", "s", "i", "o", "n">>,
      Rep("a", MaxFieldLen + 1) }

\* the titles of at most n fragments
RECURSIVE Titles(_)
Titles(n) ==
    IF n = 0 THEN { <<>> }
    ELSE Titles(n - 1) \cup { t \o f : t \in Titles(n - 1), f \in Fragments }

\* get_top_songs is called on a listing of one post with any title
InitParse ==
    /\ pc = "get_top_songs"
    /\ entry = "get_top_songs"
    /\ posts \in { << [id |-> 1, title |-> t, score |-> score_threshold] >> :
                   t \in Titles(MaxFrags) }
    /\ today = Day1
    /\ playlists = <<>>
    /\ catalog = <<>>
    /\ runs = 0
    /\ post_to_reddit = FALSE
    /\ track_list = <<>>
    /\ i = 1
    /\ found_track_list = <<>>
    /\ j = 1
    /\ title = None
    /\ artist = None
    /\ query = <<>>
    /\ queries = <<>>
    /\ id_num = None
    /\ error = "none"
    /\ playlist_id = 0
    /\ current_tracks = <<>>
    /\ k = 1
    /\ addCalls = <<>>
    /\ post_ids = <<>>
    /\ m = 1
    /\ redditLog = <<>>
    /\ lastRun = NoRun

NextParse ==
    \/ GetTopSongsPost
    \/ GetTopSongsReturn

SpecParse == InitParse /\ [][NextParse]_vars

(***************************************************************************)
(* The claims.                                                             *)
(***************************************************************************)
\* the searches find_song is to try for title t and artist a, in order: both
\* parameters; the title with the part of the artist before its first space, when
\* the artist has a space (no artist filter when that part is empty); the title alone
Stages(t, a) ==
    LET spaced == \E p \in 1..Len(a) : a[p] = " "
        n == CHOOSE n \in 0..Len(a) :
                /\ \A p \in 1..n : a[p] # " "
                /\ n < Len(a) => a[n + 1] = " "
        word == SubSeq(a, 1, n)
    IN  << <<t, a>> >>
        \o (IF spaced THEN << IF word = <<>> THEN <<t>> ELSE <<t, word>> >> ELSE <<>>)
        \o << <<t>> >>

\* the catalog has answered q with at least one result
Hit(q) == q \in DOMAIN catalog /\ catalog[q] # <<>>

\* the id the staged search is to return: the first item of the first stage with a result
Resolved(t, a) ==
    LET hits == {p \in 1..Len(Stages(t, a)) : Hit(Stages(t, a)[p])}
    IN  IF hits = {} THEN None ELSE catalog[Stages(t, a)[Min(hits)]][1]

\* C1: for a non-empty artist, find_song issues a prefix of the stages (title and
\* artist; title and first word of the artist, only when the artist has a space;
\* title alone), it goes on to the next stage exactly when every search so far
\* returned nothing, it returns the first item of the search that returned
\* something, and None exactly when every search it issued returned nothing.
C1_StagedSearch ==
    (pc = "done" /\ entry = "find_song" /\ artist # None /\ artist # <<>>) =>
        LET n == Len(queries) IN
        /\ error = "none"
        /\ n \in 1..Len(Stages(title, artist))
        /\ queries = SubSeq(Stages(title, artist), 1, n)
        /\ \A p \in 1..(n - 1) : catalog[queries[p]] = <<>>
        /\ n < Len(Stages(title, artist)) => catalog[queries[n]] # <<>>
        /\ id_num = IF catalog[queries[n]] # <<>> THEN catalog[queries[n]][1] ELSE None
        /\ (id_num = None) <=> (\A p \in 1..n : catalog[queries[p]] = <<>>)

\* find_song returned the first item of its third search, for an artist of two words
C1_Witness ==
    /\ pc = "done"
    /\ entry = "find_song"
    /\ artist = <<"a", " ", "b">>
    /\ queries = << <<title, artist>>, <<title, <<"a">> >>, <<title>> >>
    /\ id_num = TrackB

\* C2: in one run no track id is handed to user_playlist_add_tracks twice.
C2_NoTrackAddedTwice ==
    \A a, b \in 1..Len(addCalls) : a # b => addCalls[a].track # addCalls[b].track

\* the ids of the add-track calls of this run, in order
AddedIds == [a \in 1..Len(addCalls) |-> addCalls[a].track]

\* C3: a track of track_list is handed to user_playlist_add_tracks if and only if
\* its id is none of the ids read from the playlist before the loop; the playlist
\* then holds what was read followed by the ids added.
C3_AddedIffNotInPlaylist ==
    (pc \in {"cp275", "inform"}) =>
        /\ \A n \in 1..Len(track_list) :
              (\E a \in 1..Len(addCalls) : addCalls[a].index = n)
              <=> /\ n < k
                  /\ track_list[n].SpotifyID \notin
                        {current_tracks[p] : p \in 1..Len(current_tracks)}
        /\ \A a \in 1..Len(addCalls) :
              addCalls[a].track = track_list[addCalls[a].index].SpotifyID
        /\ \E p \in 1..Len(playlists) :
              /\ playlists[p].id = playlist_id
              /\ playlists[p].tracks = current_tracks \o AddedIds

\* the loop of create_playlist ended with one track added and another, already in
\* the playlist, left out
C3_Witness ==
    /\ pc = "cp275"
    /\ k > Len(track_list)
    /\ Len(track_list) = 2
    /\ current_tracks = <<TrackA>>
    /\ track_list[1].SpotifyID = TrackA
    /\ track_list[2].SpotifyID = TrackB
    /\ AddedIds = <<TrackB>>

\* the tracks the first n posts of the listing are to give: of every post at or
\* above the threshold whose title parses and whose candidate resolves, the id
\* found, the post's id and the candidate
RECURSIVE FoundOf(_)
FoundOf(n) ==
    IF n = 0 THEN <<>>
    ELSE LET post == posts[n]
             info == parse_reddit_title(post.title).value
         IN  IF /\ post.score >= score_threshold
                /\ Pattern1First(post.title) # <<>>
                /\ Resolved(info.Title, info.Artist) # None
             THEN Append(FoundOf(n - 1),
                         [SpotifyID |-> Resolved(info.Title, info.Artist),
                          RedditPostID |-> post.id,
                          TrackInfo |-> info])
             ELSE FoundOf(n - 1)

\* C4: what get_top_songs and search_spotify_for_ids hand to create_playlist is, in
\* the order of the listing, one entry for every post at or above the threshold
\* whose title parsed and whose candidate resolved, with that post's id and the id
\* found for it, and nothing else; every such post's candidate was searched for.
C4_FoundInListingOrder ==
    pc = "create_playlist" =>
        /\ track_list = FoundOf(Len(posts))
        /\ \A n \in 1..Len(posts) :
              (posts[n].score >= score_threshold /\ Pattern1First(posts[n].title) # <<>>) =>
                  LET info == parse_reddit_title(posts[n].title).value
                  IN  Stages(info.Title, info.Artist)[1] \in DOMAIN catalog

\* the first post failed to parse and the second one was found
C4_Witness ==
    /\ pc = "create_playlist"
    /\ Len(posts) = 2
    /\ posts[1].title = TitleNoSeparator
    /\ Len(track_list) = 1
    /\ track_list[1].RedditPostID = 2

\* C5 as stated: a run that follows another one adds nothing and leaves the
\* playlists as the run before left them.
C5_SecondRunAddsNothing ==
    (pc = "idle" /\ runs >= 2) => (addCalls = <<>> /\ playlists = lastRun.start)

\* C5, amended: a run that follows another one on the same date adds nothing and
\* leaves the playlists as the run before left them.
C5_SecondRunSameDayAddsNothing ==
    (pc = "idle" /\ runs >= 2 /\ lastRun.prevDay = lastRun.day) =>
        (addCalls = <<>> /\ playlists = lastRun.start)

\* a second run on the date of the first found a track the first had added, and
\* added nothing
C5_Witness ==
    /\ pc = "idle"
    /\ runs >= 2
    /\ lastRun.prevDay = lastRun.day
    /\ Len(track_list) >= 1
    /\ \E p \in 1..Len(playlists) :
          \E q \in 1..Len(playlists[p].tracks) : playlists[p].tracks[q] = TrackB
    /\ addCalls = <<>>

\* the title has none of the characters of S
Without(t, S) == \A p \in 1..Len(t) : t[p] \notin S

\* C6 as stated: a post whose title has none of '-', '|' and the em-dash adds
\* nothing to track_list.
C6_NoDashNoCandidate ==
    (pc = "done" /\ entry = "get_top_songs" /\ Without(posts[1].title, {"-", "|", EmDash}))
        => track_list = <<>>

\* C6, amended: a post whose title has none of '-', '|', the em-dash and no
\* whitespace fails to parse and adds nothing to track_list.
C6_NoSeparatorNoCandidate ==
    (pc = "done" /\ entry = "get_top_songs"
        /\ Without(posts[1].title, {"-", "|", EmDash, " "}))
        => (parse_reddit_title(posts[1].title).raised /\ track_list = <<>>)

\* a title of two words and a bracket with no separator was skipped
C6_Witness ==
    /\ pc = "done"
    /\ entry = "get_top_songs"
    /\ posts[1].title = <<"a", "b", "a", "b", "[", "a", "]", "(", "1", "9", "7", "5", ")">>
    /\ track_list = <<>>

\* the title asks for the abort: it parses, and a field is longer than 75
\* characters or the title has 'discussion' in it in any case
Aborts(t) ==
    /\ Pattern1First(t) # <<>>
    /\ \/ Len(strip(Pattern1First(t)[1])) > 75
       \/ Len(strip(Pattern1First(t)[2])) > 75
       \/ Contains(lower(t), Discussion)

\* C7 as stated: find_song is never called and no search is issued with the
\* sentinel as title or artist, and no found track has the sentinel as its title.
C7_SentinelNeverResolved ==
    /\ pc \in {"find_song", "fs193", "fs197", "fs199"}
          => (title # Sentinel /\ artist # Sentinel)
    /\ \A q \in DOMAIN catalog : \A p \in 1..Len(q) : q[p] # Sentinel
    /\ \A n \in 1..Len(found_track_list) :
          found_track_list[n].TrackInfo.Title # Sentinel

\* C7, amended: a sentinel candidate is resolved like any other: the search for
\* title and artist both the sentinel is issued for it, and its post is among the
\* found tracks, under the sentinel as title and artist, exactly when a search for
\* the sentinel returned a result.
C7_SentinelIsResolved ==
    pc = "create_playlist" =>
        \A n \in 1..Len(posts) :
            (posts[n].score >= score_threshold /\ Aborts(posts[n].title)) =>
                /\ <<Sentinel, Sentinel>> \in DOMAIN catalog
                /\ (\E e \in 1..Len(track_list) : track_list[e].RedditPostID = posts[n].id)
                   <=> (Hit(<<Sentinel, Sentinel>>) \/ Hit(<<Sentinel>>))
                /\ \A e \in 1..Len(track_list) :
                      track_list[e].RedditPostID = posts[n].id =>
                          /\ track_list[e].TrackInfo.Title = Sentinel
                          /\ track_list[e].TrackInfo.Artist = Sentinel

\* the discussion thread was searched for under the sentinel and a track was found
C7_Witness ==
    /\ pc = "create_playlist"
    /\ Len(posts) >= 1
    /\ posts[1].title = TitleDiscussion
    /\ Len(track_list) >= 1
    /\ track_list[1].RedditPostID = 1
    /\ track_list[1].TrackInfo.Title = Sentinel

\* C8: a post is replied to only if an add-track call of this run was made for
\* its track.
C8_ReplyOnlyIfAdded ==
    \A e \in 1..Len(redditLog) :
        redditLog[e].call = "reply" =>
            \E a \in 1..Len(addCalls) :
                track_list[addCalls[a].index].RedditPostID = redditLog[e].post

\* C9: with None or the empty string as artist, find_song issues the search for
\* the title alone, once, and returns its first result or None, raising nothing.
C9_NoArtistOneSearch ==
    (pc \in {"done", "raised"} /\ entry = "find_song" /\ artist \in {None, <<>>}) =>
        /\ error = "none"
        /\ queries = << <<title>> >>
        /\ id_num = IF catalog[<<title>>] # <<>> THEN catalog[<<title>>][1] ELSE None

\* C10 as stated: inform_post_on_reddit sends no reply for the last post id.
C10_NoReplyForLast ==
    (pc = "inform" /\ m > Len(post_ids) /\ post_ids # <<>>) =>
        ~ \E e \in 1..Len(redditLog) :
             /\ redditLog[e].call = "reply"
             /\ redditLog[e].post = post_ids[Len(post_ids)]

\* C10, amended: inform_post_on_reddit upvotes and replies to every post id, the
\* last one included, in the order of post_ids, and sleeps sleep_time after each
\* reply but the last.
C10_RepliesInOrderWithDelays ==
    (pc = "inform" /\ m > Len(post_ids)) =>
        LET len == Len(post_ids) IN
        /\ Len(redditLog) = IF len = 0 THEN 0 ELSE 3 * len - 1
        /\ \A n \in 1..len :
              /\ redditLog[3 * n - 2].call = "upvote"
              /\ redditLog[3 * n - 2].post = post_ids[n]
              /\ redditLog[3 * n - 1].call = "reply"
              /\ redditLog[3 * n - 1].post = post_ids[n]
              /\ n < len => /\ redditLog[3 * n].call = "sleep"
                            /\ redditLog[3 * n].seconds = 600

\* two posts were replied to, with one sleep between the replies
C10_Witness ==
    /\ pc = "inform"
    /\ m > Len(post_ids)
    /\ Len(post_ids) = 2
    /\ Len(redditLog) = 5

====
